---- MODULE Spec2Model ----
(***************************************************************************)
(* Streaming session controller of backend/main.py: websocket_endpoint and *)
(* process_streaming_chat, with the conversation store they write to.      *)
(*                                                                         *)
(* Every handler is an `async def` run by one event loop, so a task runs   *)
(* from one `await` to the next without interruption.  An action is one    *)
(* such segment.  The upstream stream is the synchronous client            *)
(* (anthropic.Anthropic, `with ... as stream`, `for text in ...`): the     *)
(* wait for the next fragment is no await, it holds the event loop.        *)
(***************************************************************************)
EXTENDS Integers, Sequences, FiniteSets, TLC

\* ---- bounds -------------------------------------------------------------
MaxFrags == 2
MaxTurns == 2
MaxClock == 1
MaxRows == 2

\* two connections; Solo is the one the sequential specification drives
Conns == {"A", "B"}
Solo == {"A"}

\* ---- inputs -------------------------------------------------------------
Fragments == {"a", "b"}
ConvIds == {"c1"}
AllIds == {"c1", "c2"}
NoConv == "none"
UserTexts == {"hi"}
Titles == {"t"}

\* CLAUDE_MODELS and the default of `data.get("model", ...)`
DefaultModel == "claude-sonnet-4-20250514"

CLAUDE_MODELS ==
    [m \in {"claude-sonnet-4-20250514", "claude-opus-4-20250514"} |->
        IF m = "claude-sonnet-4-20250514"
        THEN [name |-> "Claude 4 Sonnet", max_tokens |-> 64000,
              supports_thinking |-> TRUE]
        ELSE [name |-> "Claude 4 Opus", max_tokens |-> 32000,
              supports_thinking |-> TRUE]]

VARIABLES
    pc,                 \* position of each connection's task
    alive,              \* the client end of the connection is still there
    active_connections, \* main.py:110
    conversation_id,    \* locals of process_streaming_chat
    message,
    full_response,
    text,
    response_sent,
    db,                 \* the session of get_db_session() is open
    model,
    enable_thinking,
    stream_params,      \* what the adapter was last invoked with
    claude_client,      \* main.py:109, set by startup_event
    clock,              \* what datetime.utcnow() returns
    conv_row,           \* title, created_at, updated_at of each conversation
    response,           \* the last answer of an HTTP handler
    convs,              \* rows of table conversations
    messages,           \* rows of table messages, in insertion order
    created,            \* ids ever given to a conversation (uuid4 never repeats)
    turn,               \* history: requests read on the connection
    produced,           \* history: fragments upstream produced in this turn
    upEnd,              \* history: how the upstream sequence of this turn ended
    sent,               \* history: notifications the client was sent in this turn
    log,                \* history: <<turn, type>> of every notification sent
    userSaveFailed      \* history: the user turn's commit failed in this turn

vars == <<pc, alive, active_connections, conversation_id, message,
          full_response, text, response_sent, db, model, enable_thinking,
          stream_params, claude_client, clock, conv_row, response,
          convs, messages, created,
          turn, produced, upEnd, sent, log, userSaveFailed>>

ctl == <<pc, active_connections>>
params == <<model, enable_thinking, stream_params>>
locals == <<conversation_id, message, full_response, text, response_sent, db,
            params>>
store == <<convs, messages, created, conv_row>>
env == <<claude_client, clock, response>>
hist == <<turn, produced, upEnd, userSaveFailed>>

\* ---- pure helpers -------------------------------------------------------
RECURSIVE Concat(_)
Concat(fs) == IF fs = <<>> THEN "" ELSE Head(fs) \o Concat(Tail(fs))

Range(s) == {s[i] : i \in 1..Len(s)}

Notification(type, content, full) ==
    [type |-> type, content |-> content, full |-> full]

Message(c, t, cid, role, content) ==
    [conversation_id |-> cid, role |-> role, content |-> content,
     created_at |-> clock, by |-> <<c, t>>]

NoRow == [title |-> "", created_at |-> 0, updated_at |-> 0]
NoResponse == [op |-> "none", status |-> 0]

\* mutant: the lookup has no fallback to the default model
ModelConfigNoFallback(m) ==
    IF m \in DOMAIN CLAUDE_MODELS THEN CLAUDE_MODELS[m]
    ELSE [name |-> "", max_tokens |-> 0, supports_thinking |-> FALSE]

\* CLAUDE_MODELS.get(model, CLAUDE_MODELS["claude-sonnet-4-20250514"])
ModelConfig(m) ==
    IF m \in DOMAIN CLAUDE_MODELS THEN CLAUDE_MODELS[m]
    ELSE CLAUDE_MODELS[DefaultModel]

\* stream_params / api_params: model, max_tokens and the thinking parameter
StreamParams(m, think) ==
    [model |-> m, max_tokens |-> ModelConfig(m).max_tokens,
     thinking |-> think /\ ModelConfig(m).supports_thinking]

NoParams == [model |-> "", max_tokens |-> 0, thinking |-> FALSE]

\* await websocket.send_json(n) returns
Send(c, n) ==
    /\ sent' = [sent EXCEPT ![c] = Append(@, n)]
    /\ log' = [log EXCEPT ![c] = Append(@, <<turn[c], n.type>>)]

NoSend == UNCHANGED <<sent, log>>

\* The synchronous wait for the next fragment occupies the only thread.
BlockedOnUpstream(c) == pc[c] = "next_fragment"

\* Task c can be resumed by the event loop.
Scheduled(c) == \A d \in Conns \ {c} : ~BlockedOnUpstream(d)

LoopFree == \A d \in Conns : ~BlockedOnUpstream(d)

AwaitingRequest(c) == pc[c] = "receive"

\* mutant: the next request is read while the turn is still streaming
CanReceiveWhileStreaming(c) == pc[c] \in {"receive", "send_chunk"}

\* websocket_endpoint reads the next request only between two turns
CanReceive(c) == pc[c] = "receive"

\* mutant: the fragment is put in front of the accumulated text
AccumulatedInFront(c, f) == f \o full_response[c]

\* mutant: one accumulator for all connections
AccumulatedShared(c, f) == full_response["A"] \o f

\* full_response += text
Accumulated(c, f) == full_response[c] \o f

\* {"type": "chunk", "content": text, "full_message": full_response}
ChunkNotification(c) == Notification("chunk", text[c], full_response[c])

\* mutant: an empty reply is saved too
SavesAssistantEmptyToo(c) == conversation_id[c] # NoConv

\* `if conversation_id and full_response`
SavesAssistant(c) == conversation_id[c] # NoConv /\ full_response[c] # ""

\* mutant: the handlers do not look at the client handle
ClientReadyAlways == TRUE

\* the test `if not claude_client` of the handlers
ClientReady == claude_client

\* where the `raise` after the failed commit of the user turn ends up
UserSaveFailedTarget == "send_error_outer"

\* mutant: the store does not enforce the foreign key
CommitOkNoForeignKey(cid, dbOk) == dbOk

\* db.commit() of a pending Message: the foreign key needs the conversation.
CommitOk(cid, dbOk) == dbOk /\ cid \in convs

Init ==
    /\ pc = [c \in Conns |-> "init"]
    /\ alive = [c \in Conns |-> TRUE]
    /\ active_connections = {}
    /\ conversation_id = [c \in Conns |-> NoConv]
    /\ message = [c \in Conns |-> ""]
    /\ full_response = [c \in Conns |-> ""]
    /\ text = [c \in Conns |-> ""]
    /\ response_sent = [c \in Conns |-> FALSE]
    /\ db = [c \in Conns |-> FALSE]
    /\ model = [c \in Conns |-> DefaultModel]
    /\ enable_thinking = [c \in Conns |-> FALSE]
    /\ stream_params = [c \in Conns |-> NoParams]
    /\ claude_client = TRUE
    /\ clock = 0
    /\ conv_row = [id \in AllIds |-> NoRow]
    /\ response = NoResponse
    /\ convs = {}
    /\ messages = <<>>
    /\ created = {}
    /\ turn = [c \in Conns |-> 0]
    /\ produced = [c \in Conns |-> <<>>]
    /\ upEnd = [c \in Conns |-> "none"]
    /\ sent = [c \in Conns |-> <<>>]
    /\ log = [c \in Conns |-> <<>>]
    /\ userSaveFailed = [c \in Conns |-> FALSE]

\* ---- the client and the store's other users ----------------------------
ClientDisconnect(c) ==
    /\ pc[c] \notin {"init", "closed"}
    /\ alive[c]
    /\ alive' = [alive EXCEPT ![c] = FALSE]
    /\ UNCHANGED <<ctl, locals, store, hist, sent, log, env>>

\* the clock of datetime.utcnow() moves on
Tick ==
    /\ clock < MaxClock
    /\ clock' = clock + 1
    /\ UNCHANGED <<ctl, alive, locals, store, hist, sent, log, claude_client,
                   response>>

\* startup_event builds the client handle
startup_event ==
    /\ ~claude_client
    /\ claude_client' = TRUE
    /\ UNCHANGED <<ctl, alive, locals, store, hist, sent, log, clock, response>>

\* what an HTTP handler answers: 404 and 500 are the HTTPExceptions
Answer(op, status) == [op |-> op, status |-> status]

\* a new row gets uuid4() as id, and both timestamps from the column defaults
create_conversation(id, ttl, dbOk) ==
    /\ LoopFree
    /\ id \notin created
    /\ IF dbOk
       THEN /\ convs' = convs \cup {id}
            /\ created' = created \cup {id}
            /\ conv_row' = [conv_row EXCEPT ![id] =
                    [title |-> ttl, created_at |-> clock, updated_at |-> clock]]
            /\ response' = Answer("create", 200)
       ELSE /\ response' = Answer("create", 500)
            /\ UNCHANGED <<convs, created, conv_row>>
    /\ UNCHANGED <<ctl, alive, locals, messages, hist, sent, log, claude_client,
                   clock>>

\* mutant: the row goes, its messages stay
delete_conversation_no_cascade(id, dbOk) ==
    /\ LoopFree
    /\ IF id \notin convs
       THEN /\ response' = Answer("delete", 404)
            /\ UNCHANGED <<convs, messages, conv_row>>
       ELSE IF dbOk
       THEN /\ convs' = convs \ {id}
            /\ conv_row' = [conv_row EXCEPT ![id] = NoRow]
            /\ response' = Answer("delete", 200)
            /\ UNCHANGED messages
       ELSE /\ response' = Answer("delete", 500)
            /\ UNCHANGED <<convs, messages, conv_row>>
    /\ UNCHANGED <<ctl, alive, locals, created, hist, sent, log, claude_client,
                   clock>>

\* db.delete(conversation) with cascade="all, delete-orphan" on its messages
delete_conversation(id, dbOk) ==
    /\ LoopFree
    /\ IF id \notin convs
       THEN /\ response' = Answer("delete", 404)
            /\ UNCHANGED <<convs, messages, conv_row>>
       ELSE IF dbOk
       THEN /\ convs' = convs \ {id}
            /\ conv_row' = [conv_row EXCEPT ![id] = NoRow]
            /\ messages' = SelectSeq(messages, LAMBDA m : m.conversation_id # id)
            /\ response' = Answer("delete", 200)
       ELSE /\ response' = Answer("delete", 500)
            /\ UNCHANGED <<convs, messages, conv_row>>
    /\ UNCHANGED <<ctl, alive, locals, created, hist, sent, log, claude_client,
                   clock>>

\* ---- websocket_endpoint -------------------------------------------------
Accept(c) ==
    /\ pc[c] = "init"
    /\ Scheduled(c)
    /\ active_connections' = active_connections \cup {c}
    /\ pc' = [pc EXCEPT ![c] = "receive"]
    /\ UNCHANGED <<env, alive, locals, store, hist, sent, log>>

\* mutant: the user turn is not saved before the status goes out
ReceiveRequestSavesLater(c, cid, msg, mdl, think, dbOk) ==
    /\ CanReceive(c)
    /\ Scheduled(c)
    /\ alive[c]
    /\ turn[c] < MaxTurns
    /\ turn' = [turn EXCEPT ![c] = @ + 1]
    /\ produced' = [produced EXCEPT ![c] = <<>>]
    /\ upEnd' = [upEnd EXCEPT ![c] = "none"]
    /\ conversation_id' = [conversation_id EXCEPT ![c] = cid]
    /\ message' = [message EXCEPT ![c] = msg]
    /\ model' = [model EXCEPT ![c] = mdl]
    /\ enable_thinking' = [enable_thinking EXCEPT ![c] = think]
    /\ userSaveFailed' = [userSaveFailed EXCEPT ![c] = FALSE]
    /\ db' = [db EXCEPT ![c] = TRUE]
    /\ pc' = [pc EXCEPT ![c] = "send_status"]
    /\ sent' = [sent EXCEPT ![c] = <<>>]
    /\ UNCHANGED <<env, alive, active_connections, full_response, text,
                   response_sent, stream_params, store, log>>

\* `data = await websocket.receive_json()` returns a request; the task runs
\* process_streaming_chat up to its first await (the status or the error).
ReceiveRequest(c, cid, msg, mdl, think, dbOk) ==
    /\ CanReceive(c)
    /\ Scheduled(c)
    /\ alive[c]
    /\ turn[c] < MaxTurns
    /\ turn' = [turn EXCEPT ![c] = @ + 1]
    /\ produced' = [produced EXCEPT ![c] = <<>>]
    /\ upEnd' = [upEnd EXCEPT ![c] = "none"]
    /\ IF ~ClientReady
       THEN \* `if not claude_client`: the error notification, then return
            /\ pc' = [pc EXCEPT ![c] = "send_error_uninit"]
            /\ userSaveFailed' = [userSaveFailed EXCEPT ![c] = FALSE]
            /\ UNCHANGED <<conversation_id, message, model, enable_thinking,
                           db, messages>>
       ELSE /\ conversation_id' = [conversation_id EXCEPT ![c] = cid]
            /\ message' = [message EXCEPT ![c] = msg]
            /\ model' = [model EXCEPT ![c] = mdl]
            /\ enable_thinking' = [enable_thinking EXCEPT ![c] = think]
            /\ IF cid # NoConv /\ ~CommitOk(cid, dbOk)
               THEN \* rollback, raise; finally closes the session; outer except
                    /\ userSaveFailed' = [userSaveFailed EXCEPT ![c] = TRUE]
                    /\ db' = [db EXCEPT ![c] = FALSE]
                    /\ pc' = [pc EXCEPT ![c] = UserSaveFailedTarget]
                    /\ UNCHANGED messages
               ELSE /\ userSaveFailed' = [userSaveFailed EXCEPT ![c] = FALSE]
                    /\ db' = [db EXCEPT ![c] = TRUE]
                    /\ messages' =
                           IF cid = NoConv THEN messages
                           ELSE Append(messages,
                                       Message(c, turn[c] + 1, cid, "user", msg))
                    /\ pc' = [pc EXCEPT ![c] = "send_status"]
    /\ sent' = [sent EXCEPT ![c] = <<>>]
    /\ UNCHANGED <<env, alive, active_connections, full_response, text,
                   response_sent, stream_params, convs, created, conv_row, log>>

\* a request whose conversation_history has an entry without "role" or
\* "content": `msg["role"]` raises after the user turn was saved; finally
\* closes the session and the outer except sends the error
ReceiveBadHistory(c, cid, msg, mdl, think, dbOk) ==
    /\ CanReceive(c)
    /\ Scheduled(c)
    /\ alive[c]
    /\ turn[c] < MaxTurns
    /\ turn' = [turn EXCEPT ![c] = @ + 1]
    /\ produced' = [produced EXCEPT ![c] = <<>>]
    /\ upEnd' = [upEnd EXCEPT ![c] = "none"]
    /\ IF ~ClientReady
       THEN /\ pc' = [pc EXCEPT ![c] = "send_error_uninit"]
            /\ userSaveFailed' = [userSaveFailed EXCEPT ![c] = FALSE]
            /\ UNCHANGED <<conversation_id, message, model, enable_thinking,
                           messages>>
       ELSE /\ conversation_id' = [conversation_id EXCEPT ![c] = cid]
            /\ message' = [message EXCEPT ![c] = msg]
            /\ model' = [model EXCEPT ![c] = mdl]
            /\ enable_thinking' = [enable_thinking EXCEPT ![c] = think]
            /\ pc' = [pc EXCEPT ![c] = "send_error_outer"]
            /\ IF cid # NoConv /\ ~CommitOk(cid, dbOk)
               THEN /\ userSaveFailed' = [userSaveFailed EXCEPT ![c] = TRUE]
                    /\ UNCHANGED messages
               ELSE /\ userSaveFailed' = [userSaveFailed EXCEPT ![c] = FALSE]
                    /\ messages' =
                           IF cid = NoConv THEN messages
                           ELSE Append(messages,
                                       Message(c, turn[c] + 1, cid, "user", msg))
    /\ db' = [db EXCEPT ![c] = FALSE]
    /\ sent' = [sent EXCEPT ![c] = <<>>]
    /\ UNCHANGED <<env, alive, active_connections, full_response, text,
                   response_sent, stream_params, convs, created, conv_row, log>>

\* the error notification of `if not claude_client`, outside the try of
\* process_streaming_chat: a send that raises reaches websocket_endpoint
SendNotInitialized(c, kind) ==
    /\ pc[c] = "send_error_uninit"
    /\ Scheduled(c)
    /\ IF alive[c]
       THEN /\ Send(c, Notification("error", "", ""))
            /\ pc' = [pc EXCEPT ![c] = "receive"]
            /\ UNCHANGED active_connections
       ELSE /\ NoSend
            /\ IF kind = "disconnect"
               THEN /\ active_connections' = active_connections \ {c}
                    /\ pc' = [pc EXCEPT ![c] = "closed"]
               ELSE /\ pc' = [pc EXCEPT ![c] = "send_error_endpoint"]
                    /\ UNCHANGED active_connections
    /\ UNCHANGED <<env, alive, locals, store, hist>>

\* receive_json raises WebSocketDisconnect
ReceiveDisconnect(c) ==
    /\ pc[c] = "receive"
    /\ Scheduled(c)
    /\ ~alive[c]
    /\ active_connections' = active_connections \ {c}
    /\ pc' = [pc EXCEPT ![c] = "closed"]
    /\ UNCHANGED <<env, alive, locals, store, hist, sent, log>>

\* receive_json raises something else (a frame that is not JSON)
ReceiveMalformed(c) ==
    /\ pc[c] = "receive"
    /\ Scheduled(c)
    /\ alive[c]
    /\ pc' = [pc EXCEPT ![c] = "send_error_endpoint"]
    /\ UNCHANGED <<env, alive, active_connections, locals, store, hist, sent, log>>

\* `await websocket.send_json(...)` of the handler `except Exception`
SendEndpointError(c) ==
    /\ pc[c] = "send_error_endpoint"
    /\ Scheduled(c)
    /\ IF alive[c]
       THEN log' = [log EXCEPT ![c] = Append(@, <<turn[c] + 1, "error">>)]
       ELSE UNCHANGED log
    /\ pc' = [pc EXCEPT ![c] = "closed"]
    /\ UNCHANGED <<env, alive, active_connections, locals, store, hist, sent>>

\* ---- process_streaming_chat ---------------------------------------------
\* the status notification, then `with claude_client.messages.stream(...)`
SendStatus(c) ==
    /\ pc[c] = "send_status"
    /\ Scheduled(c)
    /\ IF alive[c]
       THEN /\ Send(c, Notification("status", ModelConfig(model[c]).name, ""))
            /\ stream_params' = [stream_params EXCEPT ![c] =
                                     StreamParams(model[c], enable_thinking[c])]
            /\ response_sent' = [response_sent EXCEPT ![c] = FALSE]
            /\ full_response' = [full_response EXCEPT ![c] = ""]
            /\ pc' = [pc EXCEPT ![c] = "next_fragment"]
            /\ UNCHANGED db
       ELSE \* the send raises: finally, then the outer except
            /\ db' = [db EXCEPT ![c] = FALSE]
            /\ pc' = [pc EXCEPT ![c] = "send_error_outer"]
            /\ NoSend /\ UNCHANGED <<response_sent, full_response, stream_params>>
    /\ UNCHANGED <<env, alive, active_connections, conversation_id, message, text,
                   model, enable_thinking, store, hist>>

\* `for text in stream.text_stream` yields a fragment
UpstreamFragment(c, f) ==
    /\ pc[c] = "next_fragment"
    /\ Len(produced[c]) < MaxFrags
    /\ text' = [text EXCEPT ![c] = f]
    /\ full_response' = [full_response EXCEPT ![c] = Accumulated(c, f)]
    /\ produced' = [produced EXCEPT ![c] = Append(@, f)]
    /\ pc' = [pc EXCEPT ![c] = "send_chunk"]
    /\ UNCHANGED <<env, alive, active_connections, conversation_id, message,
                   response_sent, db, params, store, turn, upEnd, userSaveFailed,
                   sent, log>>

\* mutant: the response_sent test is inverted
UpstreamExhaustedFlagInverted(c) ==
    /\ pc[c] = "next_fragment"
    /\ upEnd' = [upEnd EXCEPT ![c] = "exhausted"]
    /\ pc' = [pc EXCEPT ![c] = IF response_sent[c] THEN "send_complete"
                                ELSE "receive"]
    /\ UNCHANGED <<env, alive, active_connections, locals, store, turn, produced,
                   userSaveFailed, sent, log>>

\* the sequence ends: `if not response_sent` leads to the complete notification
UpstreamExhausted(c) ==
    /\ pc[c] = "next_fragment"
    /\ upEnd' = [upEnd EXCEPT ![c] = "exhausted"]
    /\ pc' = [pc EXCEPT ![c] = IF response_sent[c] THEN "receive"
                                ELSE "send_complete"]
    /\ UNCHANGED <<env, alive, active_connections, locals, store, turn, produced,
                   userSaveFailed, sent, log>>

\* mutant: an error of the stream is taken for its end
UpstreamErrorAsEnd(c) ==
    /\ pc[c] = "next_fragment"
    /\ upEnd' = [upEnd EXCEPT ![c] = "error"]
    /\ pc' = [pc EXCEPT ![c] = "send_complete"]
    /\ UNCHANGED <<env, alive, active_connections, locals, store, turn, produced,
                   userSaveFailed, sent, log>>

\* the stream raises (asyncio.TimeoutError or any Exception): both handlers
\* send one error notification
UpstreamError(c) ==
    /\ pc[c] = "next_fragment"
    /\ upEnd' = [upEnd EXCEPT ![c] = "error"]
    /\ pc' = [pc EXCEPT ![c] = "send_error_stream"]
    /\ UNCHANGED <<env, alive, active_connections, locals, store, turn, produced,
                   userSaveFailed, sent, log>>

\* the chunk notification; the pause for the Opus model is one more await
\* and changes nothing
SendChunk(c) ==
    /\ pc[c] = "send_chunk"
    /\ Scheduled(c)
    /\ IF alive[c]
       THEN /\ Send(c, ChunkNotification(c))
            /\ pc' = [pc EXCEPT ![c] = "next_fragment"]
       ELSE /\ pc' = [pc EXCEPT ![c] = "send_error_stream"]
            /\ NoSend
    /\ UNCHANGED <<env, alive, active_connections, locals, store, hist>>

\* mutant: the timestamp is committed on its own, before the Message
SendCompleteBumpsFirst(c, outcome) ==
    /\ pc[c] = "send_complete"
    /\ Scheduled(c)
    /\ IF ~alive[c]
       THEN /\ pc' = [pc EXCEPT ![c] = "send_error_stream"]
            /\ NoSend /\ UNCHANGED <<response_sent, db, messages, conv_row>>
       ELSE /\ Send(c, Notification("complete", "", full_response[c]))
            /\ response_sent' = [response_sent EXCEPT ![c] = TRUE]
            /\ IF SavesAssistant(c) /\ outcome = "lookup_fails"
               THEN \* db.query(...).first() raises: `except Exception as stream_error`
                    /\ pc' = [pc EXCEPT ![c] = "send_error_stream"]
                    /\ UNCHANGED <<db, messages, conv_row>>
               ELSE /\ IF SavesAssistant(c)
                          /\ CommitOk(conversation_id[c], outcome = "ok")
                       THEN \* the Message and `conversation.updated_at`
                            /\ messages' =
                                   Append(messages,
                                          Message(c, turn[c], conversation_id[c],
                                                  "assistant", full_response[c]))
                            /\ conv_row' =
                                   [conv_row EXCEPT ![conversation_id[c]].updated_at
                                        = clock]
                       ELSE /\ UNCHANGED messages
                            /\ conv_row' =
                                   IF SavesAssistant(c)
                                      /\ conversation_id[c] \in convs
                                   THEN [conv_row EXCEPT
                                           ![conversation_id[c]].updated_at = clock]
                                   ELSE conv_row
                    /\ db' = [db EXCEPT ![c] = FALSE]
                    /\ pc' = [pc EXCEPT ![c] = "receive"]
    /\ UNCHANGED <<env, alive, active_connections, conversation_id, message,
                   full_response, text, params, convs, created, hist>>

\* the complete notification, then the assistant turn is saved
SendComplete(c, outcome) ==
    /\ pc[c] = "send_complete"
    /\ Scheduled(c)
    /\ IF ~alive[c]
       THEN /\ pc' = [pc EXCEPT ![c] = "send_error_stream"]
            /\ NoSend /\ UNCHANGED <<response_sent, db, messages, conv_row>>
       ELSE /\ Send(c, Notification("complete", "", full_response[c]))
            /\ response_sent' = [response_sent EXCEPT ![c] = TRUE]
            /\ IF SavesAssistant(c) /\ outcome = "lookup_fails"
               THEN \* db.query(...).first() raises: `except Exception as stream_error`
                    /\ pc' = [pc EXCEPT ![c] = "send_error_stream"]
                    /\ UNCHANGED <<db, messages, conv_row>>
               ELSE /\ IF SavesAssistant(c)
                          /\ CommitOk(conversation_id[c], outcome = "ok")
                       THEN \* the Message and `conversation.updated_at`
                            /\ messages' =
                                   Append(messages,
                                          Message(c, turn[c], conversation_id[c],
                                                  "assistant", full_response[c]))
                            /\ conv_row' =
                                   [conv_row EXCEPT ![conversation_id[c]].updated_at
                                        = clock]
                       ELSE UNCHANGED <<messages, conv_row>>
                    /\ db' = [db EXCEPT ![c] = FALSE]
                    /\ pc' = [pc EXCEPT ![c] = "receive"]
    /\ UNCHANGED <<env, alive, active_connections, conversation_id, message,
                   full_response, text, params, convs, created, hist>>

\* mutant: the handler gives up the connection after the error notification
SendStreamErrorThenClose(c) ==
    /\ pc[c] = "send_error_stream"
    /\ Scheduled(c)
    /\ IF alive[c]
       THEN /\ Send(c, Notification("error", "", ""))
            /\ pc' = [pc EXCEPT ![c] = "closed"]
       ELSE /\ pc' = [pc EXCEPT ![c] = "send_error_outer"]
            /\ NoSend
    /\ db' = [db EXCEPT ![c] = FALSE]
    /\ UNCHANGED <<env, alive, active_connections, conversation_id, message,
                   full_response, text, response_sent, params, store, hist>>

\* mutant: the handler saves what was accumulated before it reports the error
SendStreamErrorSavesPartial(c) ==
    /\ pc[c] = "send_error_stream"
    /\ Scheduled(c)
    /\ IF alive[c]
       THEN /\ Send(c, Notification("error", "", ""))
            /\ pc' = [pc EXCEPT ![c] = "receive"]
       ELSE /\ pc' = [pc EXCEPT ![c] = "send_error_outer"]
            /\ NoSend
    /\ db' = [db EXCEPT ![c] = FALSE]
    /\ messages' = IF SavesAssistant(c) /\ conversation_id[c] \in convs
                   THEN Append(messages,
                               Message(c, turn[c], conversation_id[c],
                                       "assistant", full_response[c]))
                   ELSE messages
    /\ UNCHANGED <<env, alive, active_connections, conversation_id, message,
                   full_response, text, response_sent, params, convs, created,
                   conv_row, hist>>

\* mutant: the session is closed after the try block, not in a finally
SendStreamErrorKeepsSession(c) ==
    /\ pc[c] = "send_error_stream"
    /\ Scheduled(c)
    /\ IF alive[c]
       THEN /\ Send(c, Notification("error", "", ""))
            /\ pc' = [pc EXCEPT ![c] = "receive"]
       ELSE /\ pc' = [pc EXCEPT ![c] = "send_error_outer"]
            /\ NoSend
    /\ UNCHANGED <<env, alive, active_connections, locals, store, hist>>

\* the error notification of `except Exception as stream_error`
SendStreamError(c) ==
    /\ pc[c] = "send_error_stream"
    /\ Scheduled(c)
    /\ IF alive[c]
       THEN /\ Send(c, Notification("error", "", ""))
            /\ pc' = [pc EXCEPT ![c] = "receive"]
       ELSE /\ pc' = [pc EXCEPT ![c] = "send_error_outer"]
            /\ NoSend
    /\ db' = [db EXCEPT ![c] = FALSE]
    /\ UNCHANGED <<env, alive, active_connections, conversation_id, message,
                   full_response, text, response_sent, params, store, hist>>

\* mutant: the outer except only logs the exception
SendOuterErrorSilent(c, kind) ==
    /\ pc[c] = "send_error_outer"
    /\ Scheduled(c)
    /\ NoSend
    /\ pc' = [pc EXCEPT ![c] = "receive"]
    /\ UNCHANGED <<env, alive, active_connections, locals, store, hist>>

\* the error notification of the outer `except Exception as e`; a send that
\* raises leaves process_streaming_chat with WebSocketDisconnect or with
\* another exception, as the server library decides
SendOuterError(c, kind) ==
    /\ pc[c] = "send_error_outer"
    /\ Scheduled(c)
    /\ IF alive[c]
       THEN /\ Send(c, Notification("error", "", ""))
            /\ pc' = [pc EXCEPT ![c] = "receive"]
            /\ UNCHANGED active_connections
       ELSE /\ NoSend
            /\ IF kind = "disconnect"
               THEN /\ active_connections' = active_connections \ {c}
                    /\ pc' = [pc EXCEPT ![c] = "closed"]
               ELSE /\ pc' = [pc EXCEPT ![c] = "send_error_endpoint"]
                    /\ UNCHANGED active_connections
    /\ UNCHANGED <<env, alive, locals, store, hist>>

Outcomes == {"ok", "lookup_fails", "commit_fails"}
Raised == {"disconnect", "other"}

\* ---- the HTTP handlers ---------------------------------------------------
health_check ==
    /\ LoopFree
    /\ response' = Answer("health", IF ClientReady THEN 200 ELSE 503)
    /\ UNCHANGED <<ctl, alive, locals, store, hist, sent, log, claude_client,
                   clock>>

\* mutant: a title for an unknown id creates the conversation
update_conversation_title_upsert(id, ttl, dbOk) ==
    /\ LoopFree
    /\ IF dbOk
       THEN /\ conv_row' = [conv_row EXCEPT ![id].title = ttl,
                                            ![id].updated_at = clock]
            /\ convs' = convs \cup {id}
            /\ created' = created \cup {id}
            /\ response' = Answer("update_title", 200)
       ELSE /\ response' = Answer("update_title", 500)
            /\ UNCHANGED <<conv_row, convs, created>>
    /\ UNCHANGED <<ctl, alive, locals, messages, hist, sent, log,
                   claude_client, clock>>

update_conversation_title(id, ttl, dbOk) ==
    /\ LoopFree
    /\ IF id \notin convs
       THEN /\ response' = Answer("update_title", 404)
            /\ UNCHANGED conv_row
       ELSE IF dbOk
       THEN /\ conv_row' = [conv_row EXCEPT ![id].title = ttl,
                                            ![id].updated_at = clock]
            /\ response' = Answer("update_title", 200)
       ELSE /\ response' = Answer("update_title", 500)
            /\ UNCHANGED conv_row
    /\ UNCHANGED <<ctl, alive, locals, convs, messages, created, hist, sent, log,
                   claude_client, clock>>

\* the Messages of a conversation, in the order they were appended
RowsOf(id) == SelectSeq(messages, LAMBDA m : m.conversation_id = id)

\* `ORDER BY created_at`: every order that is sorted on created_at; rows
\* with equal created_at come in the order the database picks
OrderedByCreatedAt(rows) ==
    LET n == Len(rows)
        sorted == {q \in [1..n -> 1..n] :
                     /\ \A i, j \in 1..n : i # j => q[i] # q[j]
                     /\ \A i, j \in 1..n :
                           i < j => rows[q[i]].created_at <= rows[q[j]].created_at}
    IN  {[i \in 1..n |-> rows[q[i]]] : q \in sorted}

\* what get_conversation may answer for id
GetResponses(id) ==
    IF id \notin convs
    THEN {Answer("get", 404)}
    ELSE {[op |-> "get", status |-> 200, id |-> id,
           title |-> conv_row[id].title, messages |-> ms] :
             ms \in OrderedByCreatedAt(RowsOf(id))}

get_conversation(id) ==
    /\ LoopFree
    /\ response' \in GetResponses(id)
    /\ UNCHANGED <<ctl, alive, locals, store, hist, sent, log, claude_client,
                   clock>>

\* ---- search: str.strip, str.lower and ILIKE on sequences of characters ----
Chars(str) == [i \in 1..Len(str) |-> SubSeq(str, i, i)]

LowerChar(ch) ==
    CASE ch = "H" -> "h"
      [] ch = "I" -> "i"
      [] ch = "T" -> "t"
      [] OTHER -> ch

Lower(cs) == [i \in 1..Len(cs) |-> LowerChar(cs[i])]

RECURSIVE StripLeft(_)
StripLeft(cs) ==
    IF cs # <<>> /\ Head(cs) = " " THEN StripLeft(Tail(cs)) ELSE cs

RECURSIVE StripRight(_)
StripRight(cs) ==
    IF cs # <<>> /\ cs[Len(cs)] = " "
    THEN StripRight(SubSeq(cs, 1, Len(cs) - 1)) ELSE cs

Strip(cs) == StripRight(StripLeft(cs))

\* SQL LIKE: % stands for any run of characters, _ for any one character
RECURSIVE LikeMatch(_, _)
LikeMatch(pat, cs) ==
    IF pat = <<>> THEN cs = <<>>
    ELSE IF Head(pat) = "%"
    THEN LikeMatch(Tail(pat), cs) \/ (cs # <<>> /\ LikeMatch(pat, Tail(cs)))
    ELSE /\ cs # <<>>
         /\ Head(pat) = "_" \/ Head(pat) = Head(cs)
         /\ LikeMatch(Tail(pat), Tail(cs))

\* column.ilike(pattern)
ILike(column, pat) == LikeMatch(Lower(pat), Lower(Chars(column)))

\* search_term = f"%{q.strip().lower()}%"
SearchTerm(q) == <<"%">> \o Lower(Strip(Chars(q))) \o <<"%">>

\* the outer join, the filter and distinct()
SearchHits(q) ==
    {id \in convs :
        \/ ILike(conv_row[id].title, SearchTerm(q))
        \/ \E i \in 1..Len(messages) :
              /\ messages[i].conversation_id = id
              /\ ILike(messages[i].content, SearchTerm(q))}

\* `ORDER BY updated_at DESC` over a set of conversations
OrderedByUpdatedAt(ids) ==
    LET n == Cardinality(ids)
    IN  {q \in [1..n -> ids] :
            /\ \A i, j \in 1..n : i # j => q[i] # q[j]
            /\ \A i, j \in 1..n :
                  i < j => conv_row[q[i]].updated_at >= conv_row[q[j]].updated_at}

search_conversations(q) ==
    /\ LoopFree
    /\ IF Len(Strip(Chars(q))) < 2
       THEN response' = [op |-> "search", status |-> 200, q |-> q,
                         conversations |-> <<>>]
       ELSE \E found \in OrderedByUpdatedAt(SearchHits(q)) :
               response' = [op |-> "search", status |-> 200, q |-> q,
                            conversations |-> found]
    /\ UNCHANGED <<ctl, alive, locals, store, hist, sent, log, claude_client,
                   clock>>

\* what the adapter's stream does when it raises
StreamRaises == "raises"

\* what the stream of a chat turn adds up to
Replies == {"", "a", StreamRaises}

\* POST /chat: the handler has no await, it runs from the request to the
\* answer in one piece while the clock moves on by dt
chat_endpoint(cid, msg, mdl, think, dbOk, reply, outcome, dt) ==
    /\ LoopFree
    /\ clock' = clock + dt
    /\ IF ~ClientReady
       THEN /\ response' = [op |-> "chat", status |-> 500, message |-> "",
                            user_save |-> "none", api_params |-> NoParams]
            /\ UNCHANGED <<messages, conv_row>>
       ELSE IF cid # NoConv /\ ~CommitOk(cid, dbOk)
       THEN \* rollback, raise; `except Exception` answers 500
            /\ response' = [op |-> "chat", status |-> 500, message |-> "",
                            user_save |-> "failed", api_params |-> NoParams]
            /\ UNCHANGED <<messages, conv_row>>
       ELSE LET user == IF cid = NoConv THEN messages
                        ELSE Append(messages,
                                    Message("http", 0, cid, "user", msg))
                saves == cid # NoConv /\ reply \notin {"", StreamRaises}
                assistant == [Message("http", 0, cid, "assistant", reply)
                                 EXCEPT !.created_at = clock']
            IN  IF reply = StreamRaises \/ (saves /\ outcome = "lookup_fails")
                THEN \* the stream or the lookup raises, after the user turn
                     /\ messages' = user
                     /\ response' =
                           [op |-> "chat", status |-> 500, message |-> "",
                            user_save |-> IF cid = NoConv THEN "none" ELSE "ok",
                            api_params |-> StreamParams(mdl, think)]
                     /\ UNCHANGED conv_row
                ELSE /\ IF saves /\ outcome = "ok"
                        THEN /\ messages' = Append(user, assistant)
                             /\ conv_row' = [conv_row EXCEPT
                                                ![cid].updated_at = clock']
                        ELSE /\ messages' = user
                             /\ UNCHANGED conv_row
                     /\ response' =
                           [op |-> "chat", status |-> 200, message |-> reply,
                            user_save |-> IF cid = NoConv THEN "none" ELSE "ok",
                            api_params |-> StreamParams(mdl, think)]
    /\ UNCHANGED <<ctl, alive, locals, convs, created, hist, sent, log,
                   claude_client>>

Next ==
    \/ \E c \in Solo : ClientDisconnect(c)
    \/ \E id \in ConvIds, ttl \in Titles : create_conversation(id, ttl, TRUE)
    \/ \E id \in convs : delete_conversation(id, TRUE)
    \/ \E c \in Solo : Accept(c)
    \/ \E c \in Solo, cid \in ConvIds \cup {NoConv}, msg \in UserTexts,
          dbOk \in BOOLEAN :
            ReceiveRequest(c, cid, msg, DefaultModel, FALSE, dbOk)
    \/ \E c \in Solo, cid \in ConvIds \cup {NoConv}, msg \in UserTexts,
          dbOk \in BOOLEAN :
            ReceiveBadHistory(c, cid, msg, DefaultModel, FALSE, dbOk)
    \/ \E c \in Solo : ReceiveDisconnect(c)
    \/ \E c \in Solo : ReceiveMalformed(c)
    \/ \E c \in Solo : SendEndpointError(c)
    \/ \E c \in Solo : SendStatus(c)
    \/ \E c \in Solo, f \in Fragments : UpstreamFragment(c, f)
    \/ \E c \in Solo : UpstreamExhausted(c)
    \/ \E c \in Solo : UpstreamError(c)
    \/ \E c \in Solo : SendChunk(c)
    \/ \E c \in Solo, outcome \in Outcomes : SendComplete(c, outcome)
    \/ \E c \in Solo : SendStreamError(c)
    \/ \E c \in Solo, kind \in Raised : SendOuterError(c, kind)

Spec == Init /\ [][Next]_vars

\* ---- two connections at once, one turn each ------------------------------
ConcReceive(c) ==
    /\ turn[c] = 0
    /\ \E msg \in UserTexts :
          ReceiveRequest(c, NoConv, msg, DefaultModel, FALSE, TRUE)

NextConc ==
    \/ \E c \in Conns : Accept(c)
    \/ \E c \in Conns : ConcReceive(c)
    \/ \E c \in Conns : ClientDisconnect(c)
    \/ \E c \in Conns : ReceiveDisconnect(c)
    \/ \E c \in Conns : SendStatus(c)
    \/ \E c \in Conns, f \in Fragments : UpstreamFragment(c, f)
    \/ \E c \in Conns : UpstreamExhausted(c)
    \/ \E c \in Conns : UpstreamError(c)
    \/ \E c \in Conns : SendChunk(c)
    \/ \E c \in Conns, outcome \in Outcomes : SendComplete(c, outcome)
    \/ \E c \in Conns : SendStreamError(c)
    \/ \E c \in Conns, kind \in Raised : SendOuterError(c, kind)
    \/ \E c \in Conns : SendEndpointError(c)

SpecConc == Init /\ [][NextConc]_vars

\* ---- generate_conversation_title ------------------------------------------
ExcerptLen == 30
TitleWords == 4

\* str.replace('"', '').replace("'", "")
RemoveQuotes(cs) == SelectSeq(cs, LAMBDA ch : ch \notin {"\"", "'"})

\* str.split(): the runs of characters between blanks
RECURSIVE SplitWords(_, _)
SplitWords(cs, word) ==
    IF cs = <<>> THEN (IF word = <<>> THEN <<>> ELSE <<word>>)
    ELSE IF Head(cs) = " "
    THEN (IF word = <<>> THEN <<>> ELSE <<word>>) \o SplitWords(Tail(cs), <<>>)
    ELSE SplitWords(Tail(cs), Append(word, Head(cs)))

\* " ".join(words)
RECURSIVE JoinWords(_)
JoinWords(words) ==
    IF words = <<>> THEN <<>>
    ELSE IF Len(words) = 1 THEN words[1]
    ELSE words[1] \o <<" ">> \o JoinWords(Tail(words))

\* final_title: strip, drop the quotes, keep the first four words
FinalTitle(response_text) ==
    LET words == SplitWords(RemoveQuotes(Strip(Chars(response_text))), <<>>)
        kept == SubSeq(words, 1, IF Len(words) < TitleWords THEN Len(words)
                                 ELSE TitleWords)
    IN  Concat(JoinWords(kept))

\* first_message: messages[0].content[:30] + "..." when it is longer than 30
FirstMessageExcerpt(content) ==
    IF Len(content) > ExcerptLen
    THEN SubSeq(content, 1, ExcerptLen) \o "..."
    ELSE content

\* POST /conversations/{id}/generate-title; like POST /chat it has no await.
\* generated is what the stream yields, or StreamRaises. A commit that fails
\* sends the handler through its except branches to the 500 answer.
generate_conversation_title(id, generated, dbOk) ==
    /\ LoopFree
    /\ IF ~ClientReady
       THEN /\ response' = [op |-> "generate_title", status |-> 500]
            /\ UNCHANGED conv_row
       ELSE IF id \notin convs
       THEN /\ response' = [op |-> "generate_title", status |-> 404]
            /\ UNCHANGED conv_row
       ELSE IF RowsOf(id) = <<>>
       THEN /\ response' = [op |-> "generate_title", status |-> 200, id |-> id,
                            title |-> "New Chat", first |-> "",
                            fallback |-> FALSE]
            /\ UNCHANGED conv_row
       ELSE IF ~dbOk
       THEN /\ response' = [op |-> "generate_title", status |-> 500]
            /\ UNCHANGED conv_row
       ELSE \E ms \in OrderedByCreatedAt(RowsOf(id)) :
              IF generated # StreamRaises
              THEN /\ conv_row' = [conv_row EXCEPT
                                     ![id].title = FinalTitle(generated),
                                     ![id].updated_at = clock]
                   /\ response' =
                         [op |-> "generate_title", status |-> 200, id |-> id,
                          title |-> FinalTitle(generated),
                          first |-> ms[1].content, fallback |-> FALSE]
              ELSE \* the fallback assigns the title only; onupdate stamps
                   \* updated_at when that changes the row
                   LET first_message == FirstMessageExcerpt(ms[1].content)
                   IN  /\ conv_row' = [conv_row EXCEPT
                                         ![id].title = first_message,
                                         ![id].updated_at =
                                            IF first_message = conv_row[id].title
                                            THEN @ ELSE clock]
                       /\ response' =
                             [op |-> "generate_title", status |-> 200, id |-> id,
                              title |-> first_message,
                              first |-> ms[1].content, fallback |-> TRUE]
    /\ UNCHANGED <<ctl, alive, locals, convs, messages, created, hist, sent, log,
                   claude_client, clock>>

LongText == "please summarise the attached report"
GeneratedTexts == {"", " \"Trip to Rome\" ", "one two three four five",
                  StreamRaises}

TitleChat ==
    /\ Len(messages) + 2 <= MaxRows
    /\ \E cid \in ConvIds, msg \in {"hi", LongText}, reply \in Replies :
          chat_endpoint(cid, msg, DefaultModel, FALSE, TRUE, reply, "ok", 0)

NextTitle ==
    \/ Tick
    \/ \E id \in ConvIds, ttl \in Titles : create_conversation(id, ttl, TRUE)
    \/ TitleChat
    \/ \E id \in ConvIds, generated \in GeneratedTexts, dbOk \in BOOLEAN :
          generate_conversation_title(id, generated, dbOk)

SpecTitle == Init /\ [][NextTitle]_vars

\* ---- the store's handlers over two conversations ---------------------------
StoreTitles == {"Hi", "yo"}
Queries == {"", "h", " h ", "hi", "HI ", "h_", "%%"}

StoreChat ==
    /\ Len(messages) + 2 <= MaxRows
    /\ \E cid \in AllIds, reply \in Replies, outcome \in Outcomes :
          chat_endpoint(cid, "hi", DefaultModel, FALSE, TRUE, reply, outcome, 0)

NextStore ==
    \/ Tick
    \/ \E id \in AllIds, ttl \in StoreTitles :
          create_conversation(id, ttl, TRUE)
    \/ \E id \in AllIds, ttl \in StoreTitles, dbOk \in BOOLEAN :
          update_conversation_title(id, ttl, dbOk)
    \/ \E id \in AllIds, dbOk \in BOOLEAN : delete_conversation(id, dbOk)
    \/ \E id \in AllIds : get_conversation(id)
    \/ \E q \in Queries : search_conversations(q)
    \/ StoreChat

SpecStore == Init /\ [][NextStore]_vars

\* ---- one streaming turn and POST /chat, with every kind of request --------
\* the message, the model and enable_thinking of a request
Requests == {<<"hi", "claude-sonnet-4-20250514", FALSE>>,
             <<"", "claude-opus-4-20250514", TRUE>>,
             <<"hi", "gpt-4", TRUE>>}

\* a server whose startup_event has not run yet is a state of the program too
InitChat ==
    /\ pc = [c \in Conns |-> "init"]
    /\ alive = [c \in Conns |-> TRUE]
    /\ active_connections = {}
    /\ conversation_id = [c \in Conns |-> NoConv]
    /\ message = [c \in Conns |-> ""]
    /\ full_response = [c \in Conns |-> ""]
    /\ text = [c \in Conns |-> ""]
    /\ response_sent = [c \in Conns |-> FALSE]
    /\ db = [c \in Conns |-> FALSE]
    /\ model = [c \in Conns |-> DefaultModel]
    /\ enable_thinking = [c \in Conns |-> FALSE]
    /\ stream_params = [c \in Conns |-> NoParams]
    /\ claude_client = FALSE
    /\ clock = 0
    /\ conv_row = [id \in AllIds |-> NoRow]
    /\ response = NoResponse
    /\ convs = {}
    /\ messages = <<>>
    /\ created = {}
    /\ turn = [c \in Conns |-> 0]
    /\ produced = [c \in Conns |-> <<>>]
    /\ upEnd = [c \in Conns |-> "none"]
    /\ sent = [c \in Conns |-> <<>>]
    /\ log = [c \in Conns |-> <<>>]
    /\ userSaveFailed = [c \in Conns |-> FALSE]

ChatReceive(c) ==
    /\ turn[c] = 0
    /\ \E cid \in ConvIds \cup {NoConv}, req \in Requests, dbOk \in BOOLEAN :
          ReceiveRequest(c, cid, req[1], req[2], req[3], dbOk)

ChatPost ==
    /\ Len(messages) + 2 <= MaxRows
    /\ \E cid \in ConvIds \cup {NoConv}, req \in Requests, dbOk \in BOOLEAN,
          reply \in Replies, dt \in 0..1 :
            /\ clock + dt <= MaxClock
            /\ chat_endpoint(cid, req[1], req[2], req[3], dbOk, reply, "ok", dt)

NextChat ==
    \/ Tick
    \/ startup_event
    \/ health_check
    \/ \E id \in ConvIds, ttl \in Titles : create_conversation(id, ttl, TRUE)
    \/ \E id \in ConvIds, ttl \in Titles :
          update_conversation_title(id, ttl, TRUE)
    \/ ChatPost
    \/ \E c \in Solo : Accept(c)
    \/ \E c \in Solo : ChatReceive(c)
    \/ \E c \in Solo, kind \in Raised : SendNotInitialized(c, kind)
    \/ \E c \in Solo : SendStatus(c)
    \/ \E c \in Solo : UpstreamFragment(c, "a")
    \/ \E c \in Solo : UpstreamExhausted(c)
    \/ \E c \in Solo : UpstreamError(c)
    \/ \E c \in Solo : SendChunk(c)
    \/ \E c \in Solo, outcome \in Outcomes : SendComplete(c, outcome)
    \/ \E c \in Solo : SendStreamError(c)
    \/ \E c \in Solo, kind \in Raised : SendOuterError(c, kind)

SpecChat == InitChat /\ [][NextChat]_vars

\* ---- a client that stays connected, and a fair event loop -----------------
\* a request, well-formed or not, from the connected client
LiveReceive(c) ==
    \E cid \in ConvIds \cup {NoConv}, dbOk \in BOOLEAN :
        \/ ReceiveRequest(c, cid, "hi", DefaultModel, FALSE, dbOk)
        \/ ReceiveBadHistory(c, cid, "hi", DefaultModel, FALSE, dbOk)

\* the steps the event loop runs once the awaited send can go ahead
ServerStep(c) ==
    \/ SendStatus(c)
    \/ SendChunk(c)
    \/ \E outcome \in Outcomes : SendComplete(c, outcome)
    \/ SendStreamError(c)
    \/ \E kind \in Raised : SendOuterError(c, kind)

\* the upstream sequence: a fragment, its end or an error
UpstreamStep(c) ==
    \/ UpstreamFragment(c, "a")
    \/ UpstreamExhausted(c)
    \/ UpstreamError(c)

NextLive ==
    \/ \E id \in ConvIds, ttl \in Titles : create_conversation(id, ttl, TRUE)
    \/ \E id \in convs : delete_conversation(id, TRUE)
    \/ \E c \in Solo : Accept(c)
    \/ \E c \in Solo : LiveReceive(c)
    \/ \E c \in Solo : ServerStep(c)
    \/ \E c \in Solo : UpstreamStep(c)

\* every awaited send completes and the upstream sequence is finite
SpecLive ==
    /\ Init
    /\ [][NextLive]_vars
    /\ \A c \in Solo : WF_vars(ServerStep(c)) /\ WF_vars(UpstreamStep(c))

\* ---- delete against the chat turns of the same conversation ---------------
RaceReceive(c) ==
    /\ turn[c] = 0
    /\ \E cid \in ConvIds, dbOk \in BOOLEAN :
          ReceiveRequest(c, cid, "hi", DefaultModel, FALSE, dbOk)

RaceChat ==
    /\ Len(messages) + 2 <= MaxRows
    /\ \E cid \in ConvIds, dbOk \in BOOLEAN, reply \in Replies,
          outcome \in Outcomes :
            chat_endpoint(cid, "hi", DefaultModel, FALSE, dbOk, reply, outcome, 0)

NextRace ==
    \/ \E id \in ConvIds, ttl \in Titles : create_conversation(id, ttl, TRUE)
    \/ \E id \in ConvIds, dbOk \in BOOLEAN : delete_conversation(id, dbOk)
    \/ Tick
    \/ RaceChat
    \/ \E c \in Solo : Accept(c)
    \/ \E c \in Solo : RaceReceive(c)
    \/ \E c \in Solo : ServerStep(c)
    \/ \E c \in Solo, f \in Fragments : UpstreamFragment(c, f)
    \/ \E c \in Solo : UpstreamExhausted(c)
    \/ \E c \in Solo : UpstreamError(c)

SpecRace == Init /\ [][NextRace]_vars

\* ---- properties ---------------------------------------------------------
Count(s, type) == Cardinality({i \in 1..Len(s) : s[i].type = type})

Types(s) == [i \in 1..Len(s) |-> s[i].type]

Chunks(c) == SelectSeq(sent[c], LAMBDA n : n.type = "chunk")

AssistantBy(c, t) ==
    {i \in 1..Len(messages) :
        messages[i].role = "assistant" /\ messages[i].by = <<c, t>>}

TypesAfterError(k) ==
    [i \in 1..(k + 2) |-> IF i = 1 THEN "status"
                          ELSE IF i = k + 2 THEN "error" ELSE "chunk"]

\* C1: in a turn whose upstream sequence raises after k fragments, the client
\* of a connection that stays open is sent the status, exactly k chunks and
\* then exactly one error; the turn sends no complete and stores no
\* assistant Message.
C1_UpstreamErrorTurn ==
    \A c \in Conns :
        upEnd[c] = "error" =>
            /\ Count(sent[c], "complete") = 0
            /\ AssistantBy(c, turn[c]) = {}
            /\ Count(sent[c], "chunk") = Len(produced[c])
            /\ Count(sent[c], "error") <= 1
            /\ AwaitingRequest(c) =>
                   Types(sent[c]) = TypesAfterError(Len(produced[c]))

C1_Witness ==
    \E c \in Conns :
        /\ upEnd[c] = "error"
        /\ AwaitingRequest(c)
        /\ Len(produced[c]) = 2
        /\ conversation_id[c] \in convs
        /\ Count(sent[c], "error") = 1

\* C2: the i-th chunk carries fragment fi and the text f1..fi, chunks come in
\* fragment order, the complete notification follows all of them and carries
\* f1..fn of an exhausted sequence, and the assistant Message the turn stores
\* has exactly that content.
C2_CumulativeText ==
    \A c \in Conns :
        /\ Len(Chunks(c)) <= Len(produced[c])
        /\ \A i \in 1..Len(Chunks(c)) :
              /\ Chunks(c)[i].content = produced[c][i]
              /\ Chunks(c)[i].full = Concat(SubSeq(produced[c], 1, i))
        /\ \A i \in 1..Len(sent[c]) :
              sent[c][i].type = "complete" =>
                  /\ upEnd[c] = "exhausted"
                  /\ sent[c][i].full = Concat(produced[c])
                  /\ Len(Chunks(c)) = Len(produced[c])
                  /\ \A j \in (i + 1)..Len(sent[c]) : sent[c][j].type # "chunk"
        /\ \A i \in AssistantBy(c, turn[c]) :
              /\ upEnd[c] = "exhausted"
              /\ messages[i].content = Concat(produced[c])
              /\ messages[i].conversation_id = conversation_id[c]

C2_Witness ==
    \E c \in Conns :
        /\ AwaitingRequest(c)
        /\ produced[c] = <<"a", "b">>
        /\ Types(sent[c]) = <<"status", "chunk", "chunk", "complete">>
        /\ \E i \in AssistantBy(c, turn[c]) : messages[i].content = "ab"

\* C3 (the claim as stated): a turn whose user Message could not be saved
\* still invokes the upstream adapter.
C3_StreamsAfterUserSaveFailure ==
    \A c \in Conns :
        (userSaveFailed[c] /\ AwaitingRequest(c)) => upEnd[c] # "none"

\* C4: a turn sends complete at most once, and exactly once when its upstream
\* sequence was exhausted and the connection is still open.
C4_CompleteOnce ==
    \A c \in Conns :
        /\ Count(sent[c], "complete") <= 1
        /\ \A t \in 1..MaxTurns :
              Cardinality({i \in 1..Len(log[c]) :
                              log[c][i] = <<t, "complete">>}) <= 1
        /\ (upEnd[c] = "exhausted" /\ alive[c] /\ pc[c] # "send_complete")
              => Count(sent[c], "complete") = 1

C4_Witness ==
    \E c \in Conns :
        /\ AwaitingRequest(c)
        /\ upEnd[c] = "exhausted"
        /\ turn[c] = 2
        /\ Count(sent[c], "complete") = 1
        /\ \E i \in 1..Len(log[c]) : log[c][i] = <<1, "complete">>

\* C5 (the claim as stated): nothing is sent to the client after the complete
\* notification of a turn.
C5_NothingAfterComplete ==
    \A c \in Conns :
        \A i \in 1..Len(sent[c]) :
            sent[c][i].type = "complete" => i = Len(sent[c])

\* C6: when the error notification of a failed upstream sequence is
\* delivered, the controller is back in AwaitingRequest with the connection
\* open and registered, and there it can read the next request.
C6_ErrorDelivered ==
    \A c \in Conns :
        (pc[c] = "send_error_stream" /\ upEnd[c] = "error" /\ alive[c]
             /\ pc'[c] # pc[c])
        => /\ AwaitingRequest(c)'
           /\ alive'[c]
           /\ c \in active_connections'
           /\ Count(sent'[c], "error") = 1

C6_NextRequestReadable ==
    \A c \in Solo :
        (AwaitingRequest(c) /\ upEnd[c] = "error" /\ alive[c]
             /\ turn[c] < MaxTurns)
        => ENABLED ReceiveRequest(c, NoConv, "hi", DefaultModel, FALSE, TRUE)

C6_UsableAfterUpstreamError ==
    [][C6_ErrorDelivered]_vars /\ []C6_NextRequestReadable

C6_Witness ==
    \E c \in Conns :
        /\ turn[c] = 2
        /\ \E i, j \in 1..Len(log[c]) :
              /\ i < j
              /\ log[c][i] = <<1, "chunk">>
              /\ log[c][j] = <<1, "error">>
        /\ \A i \in 1..Len(log[c]) : log[c][i] # <<1, "complete">>
        /\ Types(sent[c]) = <<"status", "chunk", "complete">>

\* C7: a request is read only when the turn before it has sent its terminal
\* notification and closed its store session, and the notifications of a
\* connection are in turn order.
Terminal == {"complete", "error"}

C7_ReadsBetweenTurns ==
    \A c \in Conns :
        turn'[c] # turn[c] =>
            /\ AwaitingRequest(c)
            /\ ~db[c]
            /\ turn[c] > 0 =>
                   \E i \in 1..Len(log[c]) :
                       log[c][i][1] = turn[c] /\ log[c][i][2] \in Terminal

C7_InTurnOrder ==
    \A c \in Conns :
        \A i, j \in 1..Len(log[c]) : i < j => log[c][i][1] <= log[c][j][1]

C7_TurnsDoNotOverlap ==
    [][C7_ReadsBetweenTurns]_vars /\ []C7_InTurnOrder

C7_Witness ==
    \E c \in Conns :
        /\ turn[c] = 2
        /\ pc[c] = "send_chunk"
        /\ \E i \in 1..Len(log[c]) : log[c][i] = <<1, "complete">>
        /\ \E i \in 1..Len(log[c]) : log[c][i] = <<2, "status">>

\* C8: with two connections streaming at once, what a connection is sent is
\* built from its own fragments only, and its turn completes with the
\* concatenation of all of them.
OwnPrefixes(c) ==
    {Concat(SubSeq(produced[c], 1, k)) : k \in 0..Len(produced[c])}

C8_NoCrossTalk ==
    \A c \in Conns :
        /\ \A i \in 1..Len(sent[c]) :
              /\ sent[c][i].type = "chunk" =>
                     /\ sent[c][i].content \in Range(produced[c])
                     /\ sent[c][i].full \in OwnPrefixes(c)
              /\ sent[c][i].type = "complete" =>
                     sent[c][i].full = Concat(produced[c])
        /\ pc[c] \in {"send_chunk", "send_complete"} =>
               full_response[c] = Concat(produced[c])

C8_Witness ==
    /\ pc["A"] = "send_chunk"
    /\ pc["B"] = "send_chunk"
    /\ produced["A"] = <<"a", "b">>
    /\ produced["B"] = <<"b", "a">>
    /\ Count(sent["A"], "chunk") = 1
    /\ Count(sent["B"], "chunk") = 1

\* C9 (the claim as stated): while one connection waits for its next
\* upstream fragment, another connection can read its request and can go on
\* with its own turn.
C9_OthersNotBlocked ==
    \A a, b \in Conns :
        (a # b /\ BlockedOnUpstream(a)) =>
            /\ (AwaitingRequest(b) /\ alive[b] /\ turn[b] = 0)
                   => ENABLED ConcReceive(b)
            /\ pc[b] = "send_chunk" => ENABLED SendChunk(b)

\* C10: once the client is gone nothing more is sent to it and the stream
\* loop is not entered again, and an assistant Message enters the store only
\* as the whole text of a sequence that was exhausted without error.
C10_StopsOnTeardown ==
    \A c \in Conns :
        ~alive[c] =>
            /\ sent'[c] = sent[c]
            /\ log'[c] = log[c]
            /\ pc[c] # "next_fragment" => pc'[c] # "next_fragment"

C10_OnlyWholeTexts ==
    \A i \in 1..Len(messages') :
        (messages'[i].role = "assistant" /\ messages'[i] \notin Range(messages))
        => LET c == messages'[i].by[1] IN
               /\ messages'[i].by[2] = turn[c]
               /\ upEnd[c] = "exhausted"
               /\ messages'[i].content = Concat(produced[c])
               /\ Count(sent'[c], "complete") = 1

C10_NoPartialInStore ==
    \A c \in Conns :
        \A i \in AssistantBy(c, turn[c]) :
            /\ upEnd[c] = "exhausted"
            /\ messages[i].content = Concat(produced[c])

C10_PartialTextDiscarded ==
    [][C10_StopsOnTeardown /\ C10_OnlyWholeTexts]_vars /\ []C10_NoPartialInStore

C10_Witness ==
    \E c \in Conns :
        /\ pc[c] = "closed"
        /\ ~alive[c]
        /\ conversation_id[c] \in convs
        /\ produced[c] = <<"a">>
        /\ full_response[c] = "a"
        /\ Count(sent[c], "chunk") = 0
        /\ AssistantBy(c, turn[c]) = {}
        /\ \E i \in 1..Len(messages) : messages[i].by = <<c, turn[c]>>

\* ---- C11 ----
UserTurnSaved(c) ==
    \E i \in 1..Len(messages) :
        /\ messages[i].by = <<c, turn[c]>>
        /\ messages[i].role = "user"
        /\ messages[i].conversation_id = conversation_id[c]

StatusGoesOut(c) ==
    /\ Len(log'[c]) = Len(log[c]) + 1
    /\ log'[c][Len(log'[c])][2] = "status"

AdapterInvoked(c) == pc[c] = "send_status" /\ pc'[c] = "next_fragment"

\* C11: in a streaming turn that names a conversation, the attempt to save
\* the user turn is over (the Message is committed, or the commit failed and
\* the turn was left) before the status notification goes out and before
\* the adapter is invoked; a conversation deleted in between takes the
\* Message with it.
C11_UserTurnBeforeStatus ==
    [][\A c \in Conns :
          (StatusGoesOut(c) \/ AdapterInvoked(c)) /\ conversation_id[c] # NoConv
          => /\ ~userSaveFailed[c]
             /\ db[c]
             /\ conversation_id[c] \in convs => UserTurnSaved(c)]_vars

C11_Witness ==
    \E c \in Conns :
        /\ pc[c] = "next_fragment"
        /\ conversation_id[c] # NoConv
        /\ UserTurnSaved(c)
        /\ Types(sent[c]) = <<"status">>

\* ---- C12 ----
\* C12: the updated timestamp of every Conversation is at least the created
\* timestamp of each of its Messages, the newest one included, also after a
\* turn that saved the user Message only.
C12_UpdatedCoversNewestMessage ==
    \A id \in convs : \A i \in 1..Len(messages) :
        messages[i].conversation_id = id
        => conv_row[id].updated_at >= messages[i].created_at

\* ---- C13 ----
\* a step in which get_conversation answers with a conversation
GetAnswers ==
    /\ response' # response
    /\ response'.op = "get"
    /\ response'.status = 200

\* C13: get(id) returns the Messages appended to the conversation, all of
\* them and in the order they were appended, also when two of them carry the
\* same timestamp.
C13_GetInAppendOrder ==
    [][GetAnswers => response'.messages = RowsOf(response'.id)]_vars

\* ---- C14 ----
\* the conversations that were deleted (an id is never handed out twice)
Deleted == created \ convs

\* C14: once delete(id) has succeeded, get(id) fails with NotFound and no
\* Message of the store refers to id.
C14_DeleteRemovesMessages ==
    \A id \in Deleted :
        /\ GetResponses(id) = {Answer("get", 404)}
        /\ \A i \in 1..Len(messages) : messages[i].conversation_id # id

C14_Witness ==
    \E id \in Deleted :
        /\ response = Answer("delete", 200)
        /\ \E i \in 1..Len(messages) : messages[i].conversation_id \in convs

\* ---- C15 ----
\* C15: no Message of the store has empty content, whatever the request
\* carried as its message text.
C15_NoEmptyMessage ==
    \A i \in 1..Len(messages) : messages[i].content # ""

\* ---- C16 ----
\* C16: when POST /chat cannot save the user turn, it still invokes the
\* adapter and answers with the reply.
C16_ChatAnswersAfterUserSaveFailure ==
    response.op = "chat" /\ response.user_save = "failed"
    => /\ response.status = 200
       /\ response.api_params # NoParams

\* ---- C17 ----
UnknownModel(m) == m \notin DOMAIN CLAUDE_MODELS
Streaming(c) == pc[c] \in {"next_fragment", "send_chunk", "send_complete"}

\* C17: a request that names a model the registry does not know is served
\* with the default model's descriptor: the status names the default model,
\* the adapter gets the default model's max tokens, and thinking is passed on
\* as the default model supports it.
C17_UnknownModelGetsDefault ==
    /\ \A c \in Conns :
          Streaming(c) /\ alive[c] /\ UnknownModel(model[c])
          => /\ sent[c][1] =
                  Notification("status", CLAUDE_MODELS[DefaultModel].name, "")
             /\ stream_params[c] =
                  [model |-> model[c],
                   max_tokens |-> CLAUDE_MODELS[DefaultModel].max_tokens,
                   thinking |-> enable_thinking[c]
                                /\ CLAUDE_MODELS[DefaultModel].supports_thinking]
    /\ response.op = "chat" /\ response.api_params # NoParams
       /\ UnknownModel(response.api_params.model)
       => response.api_params.max_tokens
             = CLAUDE_MODELS[DefaultModel].max_tokens

C17_Witness ==
    /\ \E c \in Conns :
          /\ pc[c] = "send_complete"
          /\ UnknownModel(model[c])
          /\ sent[c][1].content = "Claude 4 Sonnet"
          /\ stream_params[c].max_tokens = 64000
          /\ stream_params[c].thinking
    /\ response.op = "chat"
    /\ response.status = 200
    /\ UnknownModel(response.api_params.model)

\* ---- C18 ----
\* C18: while the upstream client handle is not initialised, health answers
\* unavailable, every chat request (streaming or not) is answered with an
\* error, the adapter is not invoked and no Message is written.
C18_NothingWithoutClient ==
    ~claude_client
    => /\ response.op = "health" => response.status = 503
       /\ response.op = "chat"
          => response.status = 500 /\ response.api_params = NoParams
       /\ messages = <<>>
       /\ \A c \in Conns :
             /\ turn[c] > 0
                => \/ pc[c] = "send_error_uninit" /\ sent[c] = <<>>
                   \/ pc[c] = "receive" /\ Types(sent[c]) = <<"error">>
             /\ stream_params[c] = NoParams

C18_Witness ==
    /\ ~claude_client
    /\ response.op = "chat"
    /\ \E c \in Conns : turn[c] > 0 /\ Types(sent[c]) = <<"error">>

\* ---- C19 ----
\* a step of get, update_title or delete for the conversation id
OnConversation(id) ==
    \/ get_conversation(id)
    \/ \E ttl \in StoreTitles, dbOk \in BOOLEAN :
          update_conversation_title(id, ttl, dbOk)
    \/ \E dbOk \in BOOLEAN : delete_conversation(id, dbOk)

\* C19: get, update_title and delete for an id that names no conversation
\* fail with NotFound and leave the store as it was.
C19_NotFoundLeavesStore ==
    [][\A id \in AllIds :
          id \notin convs /\ OnConversation(id)
          => /\ response'.status = 404
             /\ UNCHANGED store]_vars

C19_Witness ==
    /\ response = Answer("update_title", 404)
    /\ convs # {}
    /\ convs # AllIds
    /\ messages # <<>>

\* ---- C20 ----
\* the characters qs occur in cs, letter case aside
Contains(cs, qs) ==
    \E i \in 1..(Len(cs) - Len(qs) + 1) :
        Lower(SubSeq(cs, i, i + Len(qs) - 1)) = Lower(qs)

\* the conversations whose title or one of whose Messages contains the query
Matching(qs) ==
    {id \in convs :
        \/ Contains(Chars(conv_row[id].title), qs)
        \/ \E i \in 1..Len(messages) :
              /\ messages[i].conversation_id = id
              /\ Contains(Chars(messages[i].content), qs)}

SearchAnswers == response' # response /\ response'.op = "search"

\* C20: search answers with the empty list for a query of fewer than two
\* characters after trimming; for a longer query it answers with every
\* conversation whose title or Message content contains the trimmed query,
\* letter case aside, each exactly once, and with no other conversation.
C20_SearchFindsExactlyTheMatches ==
    [][SearchAnswers
       => LET qs == Strip(Chars(response'.q))
              found == response'.conversations
          IN  IF Len(qs) < 2 THEN found = <<>>
              ELSE /\ Range(found) = Matching(qs)
                   /\ Len(found) = Cardinality(Matching(qs))]_vars

\* ---- C21 ----
\* title is a run of at most ExcerptLen characters of content
IsExcerpt(title, content) ==
    /\ Len(title) <= ExcerptLen
    /\ \/ title = ""
       \/ \E i \in 1..Len(content) :
             i + Len(title) - 1 <= Len(content)
             /\ SubSeq(content, i, i + Len(title) - 1) = title

\* C21: generate title on a conversation with at least one Message sets and
\* returns a title: a title of at most four words when the generation
\* succeeds, and an excerpt of at most 30 characters of the first Message's
\* content when the generation fails.
C21_TitleAlwaysSet ==
    [][response' # response /\ response'.op = "generate_title"
       /\ response'.status = 200 /\ RowsOf(response'.id) # <<>>
       => /\ conv_row'[response'.id].title = response'.title
          /\ IF response'.fallback
             THEN IsExcerpt(response'.title, response'.first)
             ELSE Len(SplitWords(Chars(response'.title), <<>>)) <= TitleWords]_vars

\* ---- C22 ----
\* websocket_endpoint has returned for the connection
Terminated(c) == pc[c] = "closed"

\* C22: a connection that has terminated, for whatever reason, is not in
\* the set of active connections.
C22_TerminatedNotActive ==
    \A c \in Conns : Terminated(c) => c \notin active_connections

\* ---- C23 ----
\* C23: a connection holds no store session while the fragments of its turn
\* are being streamed.
C23_NoSessionWhileStreaming ==
    \A c \in Conns : pc[c] \in {"next_fragment", "send_chunk"} => ~db[c]

\* ---- C24 ----
\* the turn t of connection c is being processed
InTurn(c, t) == turn[c] = t /\ pc[c] \notin {"init", "receive", "closed"}

\* the turn t of c has ended with a terminal notification
TurnEnded(c, t) ==
    /\ turn[c] = t
    /\ AwaitingRequest(c)
    /\ \E i \in 1..Len(log[c]) :
          log[c][i][1] = t /\ log[c][i][2] \in Terminal

C24_NoSilentEnd ==
    \A c \in Solo :
        AwaitingRequest(c) /\ turn[c] > 0 => TurnEnded(c, turn[c])

\* C24: with a client that stays connected and a finite upstream sequence,
\* every turn ends with a complete or an error notification and the
\* controller is back at awaiting the next request; no turn ends silently.
C24_EveryTurnEnds ==
    /\ []C24_NoSilentEnd
    /\ \A c \in Solo : \A t \in 1..(MaxTurns + 1) :
          InTurn(c, t) ~> TurnEnded(c, t)

C24_Witness ==
    \E c \in Solo :
        /\ TurnEnded(c, 2)
        /\ log[c][Len(log[c])] = <<2, "complete">>
        /\ \E i \in 1..Len(log[c]) : log[c][i] = <<1, "error">>

\* ---- C25 ----
AssistantOfTurn(c) ==
    \E i \in 1..Len(messages) :
        messages[i].by = <<c, turn[c]>> /\ messages[i].role = "assistant"

\* C25: however delete(id) interleaves with the chat turns on id, every
\* Message of the store belongs to a conversation that exists, and a turn
\* whose conversation was deleted before its assistant turn was saved has
\* stored no assistant Message.
C25_NoMessageWithoutConversation ==
    /\ \A i \in 1..Len(messages) : messages[i].conversation_id \in convs
    /\ \A c \in Conns : conversation_id[c] \in Deleted => ~AssistantOfTurn(c)

C25_Witness ==
    \E c \in Conns :
        /\ conversation_id[c] \in Deleted
        /\ AwaitingRequest(c)
        /\ full_response[c] # ""
        /\ Types(sent[c])[Len(sent[c])] = "complete"

\* ---- C26 ----
\* a step that ends a chat turn: the save after complete, or POST /chat
ChatTurnStep ==
    \/ RaceChat
    \/ \E c \in Solo, outcome \in Outcomes : SendComplete(c, outcome)

\* the step stores an assistant Message of the conversation id
AssistantAppended(id) ==
    /\ Len(messages') > Len(messages)
    /\ messages'[Len(messages')].role = "assistant"
    /\ messages'[Len(messages')].conversation_id = id

\* C26: the assistant Message and the bump of the conversation's updated
\* timestamp become visible together: a turn that stores the assistant
\* Message has set the timestamp to the time of the save, and a turn that
\* does not store it (commit failure and rollback included) leaves the
\* conversation as it was.
C26_AssistantAndTimestampTogether ==
    [][ChatTurnStep
       => \A id \in ConvIds :
             IF AssistantAppended(id)
             THEN conv_row'[id].updated_at = clock'
             ELSE conv_row'[id] = conv_row[id]]_vars

C26_Witness ==
    \E c \in Conns :
        /\ AwaitingRequest(c)
        /\ AssistantOfTurn(c)
        /\ conversation_id[c] \in convs
        /\ conv_row[conversation_id[c]].updated_at = clock
        /\ conv_row[conversation_id[c]].created_at < clock

\* ---- C27 ----
\* process_streaming_chat has left its try/finally, or has not entered it
OutsideTurn(c) ==
    pc[c] \in {"init", "receive", "closed", "send_error_uninit",
               "send_error_outer", "send_error_endpoint"}

\* C27: the session opened for a streaming turn is closed on every way out
\* of the turn, so none is open while the controller awaits a request, or
\* after the connection has terminated.
C27_SessionClosedOnEveryExit ==
    \A c \in Conns : OutsideTurn(c) => ~db[c]

C27_Witness ==
    \E c \in Conns :
        /\ pc[c] = "closed"
        /\ ~db[c]
        /\ \E i, j \in 1..Len(log[c]) :
              log[c][i] = <<1, "complete">> /\ log[c][j] = <<2, "chunk">>
        /\ upEnd[c] = "none"

\* ---- C28 ----
\* a request with or without a conversation id, well-formed or not
FrameReceive(c) ==
    /\ turn[c] = 0
    /\ \E cid \in ConvIds \cup {NoConv}, dbOk \in BOOLEAN :
          \/ ReceiveRequest(c, cid, "hi", DefaultModel, FALSE, dbOk)
          \/ ReceiveBadHistory(c, cid, "hi", DefaultModel, FALSE, dbOk)

\* POST /chat with or without a conversation id
FrameChat ==
    /\ Len(messages) + 2 <= MaxRows
    /\ \E cid \in ConvIds \cup {NoConv}, dbOk \in BOOLEAN, reply \in Replies,
          outcome \in Outcomes :
            chat_endpoint(cid, "hi", DefaultModel, FALSE, dbOk, reply, outcome, 0)

NextFrame ==
    \/ \E c \in Solo : ClientDisconnect(c)
    \/ \E id \in ConvIds, ttl \in Titles : create_conversation(id, ttl, TRUE)
    \/ Tick
    \/ FrameChat
    \/ \E c \in Solo : Accept(c)
    \/ \E c \in Solo : FrameReceive(c)
    \/ \E c \in Solo : ServerStep(c)
    \/ \E c \in Solo : UpstreamStep(c)

SpecFrame == Init /\ [][NextFrame]_vars

\* a step of the streaming turn of c, from the request on
StreamingTurnStep(c) == pc'[c] # pc[c] /\ pc[c] \notin {"init", "closed"}

\* POST /chat without a conversation id
ChatWithoutConversation ==
    /\ response'.op = "chat"
    /\ UNCHANGED pc
    /\ \E dbOk \in BOOLEAN, reply \in Replies, outcome \in Outcomes :
          chat_endpoint(NoConv, "hi", DefaultModel, FALSE, dbOk, reply,
                        outcome, 0)

\* POST /chat with a conversation id and an empty reply
ChatWithEmptyReply ==
    /\ response'.op = "chat"
    /\ UNCHANGED pc
    /\ \E cid \in ConvIds, dbOk \in BOOLEAN, outcome \in Outcomes :
          chat_endpoint(cid, "hi", DefaultModel, FALSE, dbOk, "", outcome, 0)

\* C28: a chat turn, streaming or not, whose request has no conversation id
\* changes nothing in the store, however it ends; and a turn with a
\* conversation id whose reply is empty stores no assistant Message and
\* leaves the conversation's updated timestamp alone.
C28_NoConversationNoWrite ==
    [][/\ \A c \in Solo :
            /\ StreamingTurnStep(c) /\ conversation_id'[c] = NoConv
               => UNCHANGED store
            /\ pc[c] = "send_complete" /\ pc'[c] # pc[c] /\ full_response[c] = ""
               => UNCHANGED store
       /\ ChatWithoutConversation => UNCHANGED store
       /\ ChatWithEmptyReply
          => /\ \A id \in ConvIds : ~AssistantAppended(id)
             /\ UNCHANGED conv_row]_vars

C28_Witness ==
    /\ response.op = "chat"
    /\ response.user_save = "none"
    /\ response.status = 200
    /\ \E c \in Solo :
          /\ conversation_id[c] \in convs
          /\ AwaitingRequest(c)
          /\ full_response[c] = ""
          /\ Types(sent[c])[Len(sent[c])] = "complete"
          /\ messages # <<>>
          /\ \A i \in 1..Len(messages) : messages[i].role = "user"
====
